---- MODULE Spec2Model ----
(***************************************************************************)
(* Model of pyom.miroop (src/miroop.py): construction, normalisation and   *)
(* classification of MIRO operations.                                      *)
(*                                                                         *)
(* Fragments are objects: the caller's fragments live in a heap and the    *)
(* slots of an operation hold references into it, so that the in-place     *)
(* clearing of `about` and the sharing of one fragment between two slots   *)
(* behave as they do in Python.                                            *)
(*                                                                         *)
(* A slot value is the list the object model keeps for a property:         *)
(* <<f>> holds the fragment f (oper[typ][0]), <<>> is what is left by an   *)
(* assignment of None: the key is present and the value is falsy, as       *)
(* __test__['a'] of src/miroop.py shows for "M": None.  None is supplied   *)
(* for the match slot only: every other slot that is present is            *)
(* dereferenced by the code (lines 109-129).                               *)
(***************************************************************************)
EXTENDS Integers, Sequences, FiniteSets, TLC

\* number of fragment objects the caller owns
NumFrags == 2

\* the number of properties of a fragment, as far as the code looks at it
\* (len(...) == 0): none, or some
PropCounts == {0, 1}

FragIds == 1..NumFrags

\* the object new_body / new_insert_body allocates with __class__()
NewId == NumFrags + 1

Types == <<"Person", "Group">>

\* about values: two identifiers, the empty string, None, and "no attribute"
NoneAbout == "<None>"

Unset == "<unset>"

Identifiers == {"u1", "u2"}

CallerAbouts == Identifiers \cup {"", NoneAbout, Unset}

\* Python truth value of an about
Truthy(a) == a \notin {"", NoneAbout, Unset}

ShortNames == {"M", "I", "R", "O"}

LongNames == {"match", "insert", "replace", "otherwiseInsert"}

Keys == ShortNames \cup LongNames

\* the list the loop of new_body walks, in its order
SlotOrder ==
  << <<"M", "match">>, <<"I", "insert">>, <<"R", "replace">>,
     <<"O", "otherwiseInsert">> >>

\* ALLOWEDCONSTRUCTS with one shape left out of the list
ALLOWEDCONSTRUCTS_NoMO ==
  { <<"M", "I", "R", "O">>, <<"M", "I", "R">>, <<"M", "I">>, <<"M", "R">>,
    <<"O">>, <<"M", "I", "O">>, <<"M", "R", "O">>, <<"M">> }

ALLOWEDCONSTRUCTS ==
  { <<"M", "I", "R", "O">>, <<"M", "I", "R">>, <<"M", "I">>, <<"M", "R">>,
    <<"O">>, <<"M", "I", "O">>, <<"M", "R", "O">>, <<"M", "O">>, <<"M">> }

VARIABLES
  heap,    \* the fragment objects: id -> [type, about, nprops]
  pre,     \* the heap as it was when the entry point was called
  args,    \* the dictionary handed to new_body
  oper,    \* the MIRO operation: long name -> slot value
  optype,  \* the construct string new_body accumulated
  status,  \* "idle", "returned", or the exception that was raised
  entry,   \* the entry point that was called
  restriction,  \* what oper.within_restrictions() does: "passes" or "raises"
  verdict,      \* the value verify returned, "none" before it has returned
  call,    \* the arguments of new_message, with the time and the uuid it gets
  msg,     \* the message new_message returned: field -> value
  fields,  \* the caller's args dictionary as new_message leaves it
  om2,     \* the OM2 object: its nexthop and the socket of a _Uds nexthop
  history  \* the calls of apply so far, each with what it gave back

vars ==
  <<heap, pre, args, oper, optype, status, entry, restriction, verdict,
    call, msg, fields, om2, history>>

\* ------------------------------------------------------------------------
\* new_body, step by step

\* SlotLetter with `if` in place of `elif`: one letter per key
SlotLetter_PerKey(a, short, long) ==
  (IF short \in DOMAIN a THEN <<short>> ELSE <<>>)
    \o (IF long \in DOMAIN a THEN <<short>> ELSE <<>>)

\* the letter one round of the loop appends to optype
SlotLetter(a, short, long) ==
  IF short \in DOMAIN a THEN <<short>>
  ELSE IF long \in DOMAIN a THEN <<short>>
  ELSE <<>>

\* the value one round of the loop stores in oper[long]
SlotValue(a, short, long) ==
  IF short \in DOMAIN a THEN a[short] ELSE a[long]

RECURSIVE Letters(_, _)
Letters(a, k) ==
  IF k > Len(SlotOrder) THEN <<>>
  ELSE SlotLetter(a, SlotOrder[k][1], SlotOrder[k][2]) \o Letters(a, k + 1)

HasSlot(a, k) ==
  SlotOrder[k][1] \in DOMAIN a \/ SlotOrder[k][2] \in DOMAIN a

\* oper after the loop: one key per slot that is in args under either name
ReadSlots(a) ==
  [l \in {SlotOrder[k][2] : k \in {j \in 1..Len(SlotOrder) : HasSlot(a, j)}} |->
     LET k == CHOOSE j \in 1..Len(SlotOrder) : SlotOrder[j][2] = l
     IN  SlotValue(a, SlotOrder[k][1], SlotOrder[k][2])]

Contains(letter, construct) ==
  \E i \in 1..Len(construct) : construct[i] = letter

\* the slots of op that hold the fragment f
HoldsFrag(op, part, f) == part \in DOMAIN op /\ op[part] = <<f>>

\* _verify_about that assigns without trying to read the attribute first
_verify_about_Always(h, op, parts) ==
  [f \in DOMAIN h |->
     IF \E part \in parts : HoldsFrag(op, part, f)
     THEN [h[f] EXCEPT !.about = ""]
     ELSE h[f]]

\* a fragment whose about attribute is missing gets the empty string
_verify_about(h, op, parts) ==
  [f \in DOMAIN h |->
     IF (\E part \in parts : HoldsFrag(op, part, f)) /\ h[f].about = Unset
     THEN [h[f] EXCEPT !.about = ""]
     ELSE h[f]]

\* DeriveOrder walked from the other end
DeriveOrder_Reversed == <<"otherwiseInsert", "replace", "insert">>

\* the first of insert, replace, otherwiseInsert that is in oper
DeriveOrder == <<"insert", "replace", "otherwiseInsert">>

DeriveSource(op) ==
  IF \E i \in 1..Len(DeriveOrder) : DeriveOrder[i] \in DOMAIN op
  THEN DeriveOrder[CHOOSE i \in 1..Len(DeriveOrder) :
                     /\ DeriveOrder[i] \in DOMAIN op
                     /\ \A j \in 1..(i - 1) : DeriveOrder[j] \notin DOMAIN op]
  ELSE "none"

\* NeedsDerive without the test of the value of match
NeedsDerive_Always(op) == "match" \in DOMAIN op

\* does the derivation branch run: match is in oper and is falsy
NeedsDerive(op) == "match" \in DOMAIN op /\ op["match"] = <<>>

\* DeriveHeap without the copy of the source's about
DeriveHeap_NoAbout(h, op) ==
  IF NeedsDerive(op) /\ DeriveSource(op) # "none"
  THEN LET f == op[DeriveSource(op)][1]
           made == [type |-> h[f].type, about |-> "", nprops |-> 0]
           h1 == (NewId :> made) @@ h
       IN  [h1 EXCEPT ![f].about = ""]
  ELSE h

\* the heap after the derivation: a new object of the source's class that
\* takes the source's about, and the source's about cleared
DeriveHeap(h, op) ==
  IF NeedsDerive(op) /\ DeriveSource(op) # "none"
  THEN LET f == op[DeriveSource(op)][1]
           made == [type |-> h[f].type, about |-> h[f].about, nprops |-> 0]
           h1 == (NewId :> made) @@ h
       IN  [h1 EXCEPT ![f].about = ""]
  ELSE h

\* oper after the derivation; with nothing to derive from, match is
\* assigned None again and no NameError is raised
DeriveOper(op) ==
  IF NeedsDerive(op) /\ DeriveSource(op) # "none"
  THEN [op EXCEPT !["match"] = <<NewId>>]
  ELSE op

\* ClearOtherwise without the clearing
ClearOtherwise_Never(h, op, ot) == h

\* otherwiseInsert against match
ClearOtherwise(h, op, ot) ==
  IF Contains("O", ot) /\ Contains("M", ot)
  THEN LET o == op["otherwiseInsert"][1]
           m == op["match"][1]
       IN  IF h[o].about = h[m].about
           THEN [h EXCEPT ![o].about = ""]
           ELSE h
  ELSE h

\* FragmentEqualsAbout as a comparison of the about of the fragment
FragmentEqualsAbout_ByAbout(h, f, a) == h[f].about = a

\* oper["replace"][0] == oper["match"][0].about: a fragment object is
\* compared with an about value, and a fragment is no string
FragmentEqualsAbout(h, f, a) == FALSE

\* replace against match
ClearReplace(h, op, ot) ==
  IF Contains("M", ot) /\ Contains("R", ot)
  THEN LET r == op["replace"][1]
           m == op["match"][1]
       IN  IF Truthy(h[r].about) /\ FragmentEqualsAbout(h, r, h[m].about)
           THEN [h EXCEPT ![r].about = ""]
           ELSE h
  ELSE h

\* ClearInsert that clears only an about that repeats the about of match
ClearInsert_IfSame(h, op, ot) ==
  IF Contains("M", ot) /\ Contains("I", ot)
  THEN LET i == op["insert"][1]
       IN  IF Truthy(h[i].about) /\ h[i].about = h[op["match"][1]].about
           THEN [h EXCEPT ![i].about = ""]
           ELSE h
  ELSE h

\* insert alongside match
ClearInsert(h, op, ot) ==
  IF Contains("M", ot) /\ Contains("I", ot)
  THEN LET i == op["insert"][1]
       IN  IF Truthy(h[i].about)
           THEN [h EXCEPT ![i].about = ""]
           ELSE h
  ELSE h

\* the result of new_body(a) on the heap h: the exception or the operation,
\* with the heap it leaves
new_body(a, h) ==
  LET op0 == ReadSlots(a)
      ot  == Letters(a, 1)
  IN  IF ot \notin ALLOWEDCONSTRUCTS
      THEN [status |-> "NotAllowedConstruct", oper |-> op0, optype |-> ot,
            heap |-> h]
      ELSE LET h1  == _verify_about(h, op0, LongNames)
               h2  == DeriveHeap(h1, op0)
               op2 == DeriveOper(op0)
               h3  == ClearOtherwise(h2, op2, ot)
               h4  == ClearReplace(h3, op2, ot)
               h5  == ClearInsert(h4, op2, ot)
           IN  [status |-> "returned", oper |-> op2, optype |-> ot,
                heap |-> h5]

\* ------------------------------------------------------------------------
\* new_insert_body

\* `not match`: None is falsy; whether a fragment without properties is
\* falsy is decided by the object model (its __len__ is 0), so both outcomes
\* are allowed for it
MatchIsFalsy(h, m, emptyIsFalsy) ==
  m = <<>> \/ (h[m[1]].nprops = 0 /\ emptyIsFalsy)

new_insert_body(ins, m, h, emptyIsFalsy) ==
  IF MatchIsFalsy(h, m, emptyIsFalsy)
  THEN IF h[ins].about = Unset
       THEN [status |-> "AttributeError", oper |-> <<>>, optype |-> <<>>,
             heap |-> h]
       ELSE LET made == [type |-> h[ins].type, about |-> h[ins].about,
                         nprops |-> 0]
                h1 == [((NewId :> made) @@ h) EXCEPT ![ins].about = NoneAbout]
            IN  new_body(("I" :> <<ins>>) @@ ("M" :> <<NewId>>), h1)
  ELSE new_body(("I" :> <<ins>>) @@ ("M" :> m), h)

\* ------------------------------------------------------------------------
\* new_add_body

new_add_body(obj, h) == new_body("O" :> <<obj>>, h)

\* ------------------------------------------------------------------------
\* classification

operation(op) ==
  (IF "match" \in DOMAIN op THEN <<"M">> ELSE <<>>)
    \o (IF "insert" \in DOMAIN op THEN <<"I">> ELSE <<>>)
    \o (IF "replace" \in DOMAIN op THEN <<"R">> ELSE <<>>)
    \o (IF "otherwiseInsert" \in DOMAIN op THEN <<"O">> ELSE <<>>)

\* is_move_operation that also wants the two abouts to differ
is_move_operation_Different(op, h) ==
  IF Cardinality(DOMAIN op) = 2 /\ "match" \in DOMAIN op
     /\ "replace" \in DOMAIN op
  THEN /\ Truthy(h[op["match"][1]].about)
       /\ Truthy(h[op["replace"][1]].about)
       /\ h[op["match"][1]].about # h[op["replace"][1]].about
       /\ h[op["match"][1]].nprops = 0
       /\ h[op["replace"][1]].nprops = 0
  ELSE FALSE

is_move_operation(op, h) ==
  IF Cardinality(DOMAIN op) = 2 /\ "match" \in DOMAIN op
     /\ "replace" \in DOMAIN op
  THEN /\ Truthy(h[op["match"][1]].about)
       /\ Truthy(h[op["replace"][1]].about)
       /\ h[op["match"][1]].nprops = 0
       /\ h[op["replace"][1]].nprops = 0
  ELSE FALSE

is_rename_operation(op, h) ==
  IF operation(op) = <<"M", "R">>
  THEN LET match == op["match"][1]
           replace == op["replace"][1]
       IN  /\ h[match].nprops = 0
           /\ Truthy(h[match].about)
           /\ h[replace].nprops = 0
           /\ Truthy(h[replace].about)
  ELSE FALSE

\* is_add_operation without the test of len(oper)
is_add_operation_AnyLength(op) == "otherwiseInsert" \in DOMAIN op

is_add_operation(op) ==
  IF Cardinality(DOMAIN op) = 1 /\ "otherwiseInsert" \in DOMAIN op
  THEN TRUE
  ELSE FALSE

is_delete_operation(op) ==
  IF Cardinality(DOMAIN op) = 1 /\ "match" \in DOMAIN op
  THEN TRUE
  ELSE FALSE

\* about that leaves out an empty about of otherwiseInsert as well
about_NonEmptyOnly(op, h) ==
  LET opt == operation(op)
  IN  (IF Contains("M", opt) THEN <<h[op["match"][1]].about>> ELSE <<>>)
        \o (IF Contains("R", opt) /\ Truthy(h[op["replace"][1]].about)
            THEN <<h[op["replace"][1]].about>> ELSE <<>>)
        \o (IF Contains("O", opt) /\ Truthy(h[op["otherwiseInsert"][1]].about)
            THEN <<h[op["otherwiseInsert"][1]].about>> ELSE <<>>)

\* the list about(oper) returns; like the code it reads oper[...][0] of
\* every slot it reports, so it is defined on operations whose match holds
\* a fragment
about(op, h) ==
  LET opt == operation(op)
  IN  (IF Contains("M", opt) THEN <<h[op["match"][1]].about>> ELSE <<>>)
        \o (IF Contains("R", opt) /\ Truthy(h[op["replace"][1]].about)
            THEN <<h[op["replace"][1]].about>> ELSE <<>>)
        \o (IF Contains("O", opt)
            THEN <<h[op["otherwiseInsert"][1]].about>> ELSE <<>>)

\* remove_object_type without the test of the properties
remove_object_type_AnyMatch(op, h) == operation(op) = <<"M">>

\* like the code it reads oper["match"][0], so it is defined on operations
\* whose match holds a fragment
remove_object_type(op, h) ==
  IF operation(op) = <<"M">>
  THEN IF h[op["match"][1]].nprops = 0 THEN TRUE ELSE FALSE
  ELSE FALSE

\* ------------------------------------------------------------------------
\* verify

\* oper.within_restrictions() belongs to the object model: it passes, or it
\* raises for a fragment that breaks a restriction of its class
RestrictionOutcomes == {"passes", "raises"}

\* verify without the test of the construct
verify_RestrictionsOnly(op, outcome) ==
  IF outcome = "raises"
  THEN [status |-> "RestrictionViolation", value |-> "none"]
  ELSE [status |-> "returned", value |-> "True"]

\* the exception verify(oper) ends with, or the value it returns
verify(op, outcome) ==
  IF outcome = "raises"
  THEN [status |-> "RestrictionViolation", value |-> "none"]
  ELSE IF operation(op) \notin ALLOWEDCONSTRUCTS
  THEN [status |-> "NotAllowedConstruct", value |-> "none"]
  ELSE [status |-> "returned", value |-> "True"]

\* ------------------------------------------------------------------------
\* new_message

\* Python's None, an empty string and an empty list are falsy
PyNone == "<None>"

EmptyList == "[]"

ValueTruthy(v) == v \notin {PyNone, "", EmptyList}

\* args of new_message: None, or a dictionary
NoArgs == [none |-> TRUE, items |-> <<>>]

Dict(d) == [none |-> FALSE, items |-> d]

\* `if args`: neither None nor an empty dictionary
ArgsTruthy(a) == ~a.none /\ DOMAIN a.items # {}

\* MsgBody that stores the body whatever it is
MsgBody_Always(body) == "body" :> body

\* if oper: msg["body"] = oper
MsgBody(body) == IF ValueTruthy(body) THEN "body" :> body ELSE <<>>

\* if receiver: msg["receiver"] = receiver
MsgReceiver(receiver) ==
  IF ValueTruthy(receiver) THEN "receiver" :> receiver ELSE <<>>

\* does args["mid"] succeed (no KeyError, no TypeError)
HasMid(a) == ~a.none /\ "mid" \in DOMAIN a.items

\* msg["mid"]: the caller's, or a new uuid
MsgMid(a, uuid) == "mid" :> (IF HasMid(a) THEN a.items["mid"] ELSE uuid)

\* ArgsAfterMid without the del
ArgsAfterMid_Kept(a) == a

\* del args["mid"]
ArgsAfterMid(a) ==
  IF HasMid(a)
  THEN Dict([k \in DOMAIN a.items \ {"mid"} |-> a.items[k]])
  ELSE a

\* Skipped that also protects the time of creation
Skipped_CreateTimeToo(key, sender, receiver) ==
  \/ ValueTruthy(sender) /\ key = "sender"
  \/ ValueTruthy(receiver) /\ key = "receiver"
  \/ key = "body"
  \/ key = "createTime"

\* the entries of args the loop passes over with `continue`
Skipped(key, sender, receiver) ==
  \/ ValueTruthy(sender) /\ key = "sender"
  \/ ValueTruthy(receiver) /\ key = "receiver"
  \/ key = "body"

\* the entries of args the loop writes into msg
Merged(a, sender, receiver) ==
  IF ArgsTruthy(a)
  THEN [k \in {x \in DOMAIN a.items : ~Skipped(x, sender, receiver)} |->
          a.items[k]]
  ELSE <<>>

\* the message new_message returns and the args dictionary it leaves; the
\* later assignment to a field replaces the earlier one
new_message(body, sender, receiver, a, now, uuid) ==
  LET a1 == ArgsAfterMid(a)
  IN  [status |-> "returned",
       msg |-> Merged(a1, sender, receiver)
                 @@ MsgMid(a, uuid)
                 @@ ("createTime" :> now)
                 @@ MsgReceiver(receiver)
                 @@ ("source" :> sender)
                 @@ MsgBody(body),
       args |-> a1]

\* ------------------------------------------------------------------------
\* the nexthop of OM2 and OM2.apply

\* str.startswith, on strings as sequences of characters
startswith(str, prefix) ==
  Len(str) >= Len(prefix) /\ SubSeq(str, 1, Len(prefix)) = prefix

\* str[n:]
From(str, n) == SubSeq(str, n + 1, Len(str))

\* _Uds.__init__: the socket is made here, once; the path is path[4:]
_Uds(path) ==
  [class |-> "_Uds", path |-> From(path, 4), server |-> "open"]

\* _Http.__init__
_Http(path) == [class |-> "_Http", path |-> path, server |-> "Http"]

\* _File.__init__: the path is path[8:]
_File(path) == [class |-> "_File", path |-> From(path, 8), server |-> "none"]

\* self.nexthop is None
NoNexthop == [class |-> "None", path |-> <<>>, server |-> "none"]

\* self.nexthop was never assigned
UnsetNexthop == [class |-> Unset, path |-> <<>>, server |-> "none"]

\* OM2.__init__, the choice of the nexthop; nexthop is None, or a string
OM2(nexthop) ==
  IF nexthop # PyNone /\ nexthop # <<>>
  THEN IF startswith(nexthop, <<"h", "t", "t", "p">>) THEN _Http(nexthop)
       ELSE IF startswith(nexthop, <<"u", "d", "s", ":">>) THEN _Uds(nexthop)
       ELSE IF startswith(nexthop, <<"f", "i", "l", "e", ":", "/", "/", "/">>)
            THEN _File(nexthop)
       ELSE UnsetNexthop
  ELSE NoNexthop

\* what the other side of a _Uds.write does: refuses the connection, breaks
\* it after the connect, or answers
UdsPeers == {"refused", "broken", "OK", "OK\r\n", "ERROR"}

\* _Uds.write on a socket in the state server: a socket that is connected
\* or closed raises socket.error on connect; close comes after recv only;
\* the stripped reply is thrown away and the reply itself is compared
Uds_write(nh, peer) ==
  IF nh.server # "open"
  THEN [raised |-> "socket.error", value |-> "none", nexthop |-> nh]
  ELSE IF peer = "refused"
  THEN [raised |-> "socket.error", value |-> "none", nexthop |-> nh]
  ELSE IF peer = "broken"
  THEN [raised |-> "socket.error", value |-> "none",
        nexthop |-> [nh EXCEPT !.server = "connected"]]
  ELSE [raised |-> "none",
        value |-> IF peer = "OK" THEN "True" ELSE "False",
        nexthop |-> [nh EXCEPT !.server = "closed"]]

\* what the request of _Http.write comes to: a socket error, or a response
HttpPeers == {"socket.error", "200", "500"}

Http_write(nh, peer) ==
  IF peer = "socket.error"
  THEN [raised |-> "socket.error", value |-> "none", nexthop |-> nh]
  ELSE [raised |-> "none",
        value |-> IF peer = "200" THEN "True" ELSE "False",
        nexthop |-> nh]

\* the file of _File.write opens for appending, or open raises IOError
FilePeers == {"appended", "IOError"}

File_write(nh, peer) ==
  IF peer = "IOError"
  THEN [raised |-> "IOError", value |-> "none", nexthop |-> nh]
  ELSE [raised |-> "none", value |-> "True", nexthop |-> nh]

\* self.nexthop.write(rdf_xml)
write(nh, peer) ==
  IF nh.class = "_Uds" THEN Uds_write(nh, peer)
  ELSE IF nh.class = "_Http" THEN Http_write(nh, peer)
  ELSE File_write(nh, peer)

\* apply that answers False when there is no nexthop
apply_FalseWithoutNexthop(nh, rdf_xml, peer) ==
  IF nh.class = Unset
  THEN [status |-> "AttributeError", value |-> "none", nexthop |-> nh]
  ELSE IF nh.class # "None"
  THEN LET w == write(nh, peer)
       IN  IF w.raised = "socket.error"
           THEN [status |-> "returned", value |-> "False", nexthop |-> w.nexthop]
           ELSE IF w.raised # "none"
           THEN [status |-> w.raised, value |-> "none", nexthop |-> w.nexthop]
           ELSE [status |-> "returned", value |-> w.value, nexthop |-> w.nexthop]
  ELSE [status |-> "returned", value |-> "False", nexthop |-> nh]

\* OM2.apply: what it returns or raises, and the nexthop it leaves
apply(nh, rdf_xml, peer) ==
  IF nh.class = Unset
  THEN [status |-> "AttributeError", value |-> "none", nexthop |-> nh]
  ELSE IF nh.class # "None"
  THEN LET w == write(nh, peer)
       IN  IF w.raised = "socket.error"
           THEN [status |-> "returned", value |-> "False", nexthop |-> w.nexthop]
           ELSE IF w.raised # "none"
           THEN [status |-> w.raised, value |-> "none", nexthop |-> w.nexthop]
           ELSE [status |-> "returned", value |-> w.value, nexthop |-> w.nexthop]
  ELSE [status |-> "returned", value |-> rdf_xml, nexthop |-> nh]

\* ------------------------------------------------------------------------
\* the caller

\* the class of the caller's fragment f
TypeOf(f) == Types[((f - 1) % Len(Types)) + 1]

Fragments ==
  [type : {Types[i] : i \in 1..Len(Types)}, about : CallerAbouts,
   nprops : PropCounts]

Heaps == {h \in [FragIds -> Fragments] : \A f \in FragIds : h[f].type = TypeOf(f)}

\* a fragment as its constructor leaves it
Fresh(f) == [type |-> TypeOf(f), about |-> Unset, nprops |-> 0]

\* the caller has filled in only the fragments it passes
OnlyPassedFilled(h, passed) ==
  \A f \in FragIds : <<f>> \notin passed => h[f] = Fresh(f)

SlotValues(k) ==
  {<<f>> : f \in FragIds} \cup (IF SlotOrder[k][1] = "M" THEN {<<>>} ELSE {})

\* what a caller puts in args for one slot: nothing, the alias or the full
\* name
PlainChoices(k) ==
  {<<>>}
    \cup {SlotOrder[k][1] :> v : v \in SlotValues(k)}
    \cup {SlotOrder[k][2] :> v : v \in SlotValues(k)}

\* nothing or the alias
AliasChoices(k) ==
  {<<>>} \cup {SlotOrder[k][1] :> v : v \in SlotValues(k)}

\* the alias and the full name of one slot, with different values
BothChoices(k) ==
  {(SlotOrder[k][1] :> p[1]) @@ (SlotOrder[k][2] :> p[2]) :
     p \in {q \in SlotValues(k) \X SlotValues(k) : q[1] # q[2]}}

Join(c) == c[1] @@ c[2] @@ c[3] @@ c[4]

\* the dictionaries handed to new_body: every slot under one name, or one
\* slot under both names beside slots under their alias
ArgSets ==
  {Join(c) : c \in PlainChoices(1) \X PlainChoices(2) \X PlainChoices(3)
                     \X PlainChoices(4)}
    \cup UNION {
      {Join(c) :
         c \in (IF d = 1 THEN BothChoices(1) ELSE AliasChoices(1))
                 \X (IF d = 2 THEN BothChoices(2) ELSE AliasChoices(2))
                 \X (IF d = 3 THEN BothChoices(3) ELSE AliasChoices(3))
                 \X (IF d = 4 THEN BothChoices(4) ELSE AliasChoices(4))} :
      d \in 1..Len(SlotOrder)}

Init ==
  /\ heap \in Heaps
  /\ pre = heap
  /\ args = <<>>
  /\ oper = <<>>
  /\ optype = <<>>
  /\ status = "idle"
  /\ entry = "none"
  /\ restriction = "passes"
  /\ verdict = "none"
  /\ call = <<>>
  /\ msg = <<>>
  /\ fields = <<>>
  /\ om2 = <<>>
  /\ history = <<>>

\* the call returns or raises: the caller sees the operation only if it
\* returned
Finish(name, a, res) ==
  /\ entry' = name
  /\ args' = a
  /\ pre' = heap
  /\ status' = res.status
  /\ optype' = res.optype
  /\ oper' = IF res.status = "returned" THEN res.oper ELSE <<>>
  /\ heap' = res.heap
  /\ UNCHANGED <<restriction, verdict, call, msg, fields, om2, history>>

CallNewBody ==
  /\ status = "idle"
  /\ \E a \in ArgSets :
       /\ OnlyPassedFilled(heap, {a[key] : key \in DOMAIN a})
       /\ Finish("new_body", a, new_body(a, heap))

\* args records the parameters insert and match of new_insert_body
CallNewInsertBody ==
  /\ status = "idle"
  /\ \E ins \in FragIds, m \in SlotValues(1), emptyIsFalsy \in BOOLEAN :
       /\ OnlyPassedFilled(heap, {<<ins>>, m})
       /\ Finish("new_insert_body", ("insert" :> <<ins>>) @@ ("match" :> m),
              new_insert_body(ins, m, heap, emptyIsFalsy))

\* args records the dictionary new_add_body hands to new_body
CallNewAddBody ==
  /\ status = "idle"
  /\ \E obj \in FragIds :
       /\ OnlyPassedFilled(heap, {<<obj>>})
       /\ Finish("new_add_body", "O" :> <<obj>>, new_add_body(obj, heap))

Next == CallNewBody \/ CallNewInsertBody \/ CallNewAddBody

Spec == Init /\ [][Next]_vars

\* ------------------------------------------------------------------------
\* new_body called again with the slots of the operation it returned

\* args is now the operation of the first call, pre the fragments as the
\* first call left them
BuildAgain ==
  /\ status = "returned"
  /\ entry = "new_body"
  /\ Finish("new_body_again", oper, new_body(oper, heap))

NextAgain == CallNewBody \/ BuildAgain

SpecAgain == Init /\ [][NextAgain]_vars

\* ------------------------------------------------------------------------
\* verify, on any operation: one that was built, parsed or put together by
\* hand

\* the operations with any set of slots, each holding a fragment
AnyOpers ==
  UNION {[S -> {<<f>> : f \in FragIds}] : S \in SUBSET LongNames}

InitVerify ==
  /\ heap = [f \in FragIds |-> Fresh(f)]
  /\ pre = heap
  /\ args = <<>>
  /\ oper \in AnyOpers
  /\ optype = <<>>
  /\ status = "idle"
  /\ entry = "none"
  /\ restriction \in RestrictionOutcomes
  /\ verdict = "none"
  /\ call = <<>>
  /\ msg = <<>>
  /\ fields = <<>>
  /\ om2 = <<>>
  /\ history = <<>>

CallVerify ==
  /\ status = "idle"
  /\ entry' = "verify"
  /\ status' = verify(oper, restriction).status
  /\ verdict' = verify(oper, restriction).value
  /\ UNCHANGED <<heap, pre, args, oper, optype, restriction, call, msg, fields, om2,
               history>>

NextVerify == CallVerify

SpecVerify == InitVerify /\ [][NextVerify]_vars

\* ------------------------------------------------------------------------
\* new_message and its caller

\* an operation, a list of operations, or nothing
Bodies == {"op", "[op, op]", EmptyList, PyNone}

Senders == {"s1", "", PyNone}

Receivers == {"r1", EmptyList, PyNone}

\* the keys of args: the message id, the fields new_message sets itself,
\* the name of the sender parameter, and a field of the caller's own
FieldKeys ==
  {"mid", "source", "sender", "receiver", "body", "createTime", "ErrorTo"}

FieldValue == "fv"

ArgDicts ==
  {NoArgs} \cup {Dict(d) : d \in UNION {[S -> {FieldValue}] : S \in SUBSET FieldKeys}}

\* what time.strftime and uuid1 give the call
Times == {"2009-08-28T10:00:00", "2009-08-28T10:00:01"}

Uuids == {"uuid-a", "uuid-b"}

InitMsg ==
  /\ heap = [f \in FragIds |-> Fresh(f)]
  /\ pre = heap
  /\ args = <<>>
  /\ oper = <<>>
  /\ optype = <<>>
  /\ status = "idle"
  /\ entry = "none"
  /\ restriction = "passes"
  /\ verdict = "none"
  /\ call \in [oper : Bodies, sender : Senders, receiver : Receivers,
               args : ArgDicts, now : Times, uuid : Uuids]
  /\ msg = <<>>
  /\ fields = call.args
  /\ om2 = <<>>
  /\ history = <<>>

CallNewMessage ==
  /\ status = "idle"
  /\ LET res == new_message(call.oper, call.sender, call.receiver, call.args,
                            call.now, call.uuid)
     IN  /\ entry' = "new_message"
         /\ status' = res.status
         /\ msg' = res.msg
         /\ fields' = res.args
  /\ UNCHANGED <<heap, pre, args, oper, optype, restriction, verdict, call, om2,
               history>>

NextMsg == CallNewMessage

SpecMsg == InitMsg /\ [][NextMsg]_vars
\* ------------------------------------------------------------------------
\* OM2.apply and its caller

\* the number of calls of apply on one OM2 object
MaxApplies == 2

\* the nexthop parameter of OM2: None, the empty string, or an address
Nexthops ==
  { PyNone, <<>>,
    <<"h", "t", "t", "p", ":", "/", "/", "n">>,
    <<"h", "t", "t", "p", "s", ":", "/", "/", "n">>,
    <<"u", "d", "s", ":", "/", "s">>,
    <<"u", "d", "s", "/", "s">>,
    <<"f", "i", "l", "e", ":", "/", "/", "/", "f">>,
    <<"f", "t", "p", ":", "/", "/", "n">> }

\* rdf.graph("pretty-xml")
Graphs == {"<rdf:RDF>a</rdf:RDF>", "<rdf:RDF>b</rdf:RDF>"}

Peers(nh) ==
  IF nh.class = "_Uds" THEN UdsPeers
  ELSE IF nh.class = "_Http" THEN HttpPeers
  ELSE IF nh.class = "_File" THEN FilePeers
  ELSE {"none"}

InitApply ==
  /\ heap = [f \in FragIds |-> Fresh(f)]
  /\ pre = heap
  /\ args = <<>>
  /\ oper = <<>>
  /\ optype = <<>>
  /\ status = "idle"
  /\ entry = "none"
  /\ restriction = "passes"
  /\ verdict = "none"
  /\ call = <<>>
  /\ msg = <<>>
  /\ fields = <<>>
  /\ om2 \in {OM2(nexthop) : nexthop \in Nexthops}
  /\ history = <<>>

\* one call of apply; history keeps the graph, what the other side did, the
\* socket as the call found it, and what the call gave back
CallApply ==
  /\ Len(history) < MaxApplies
  /\ \E rdf_xml \in Graphs, peer \in Peers(om2) :
       LET res == apply(om2, rdf_xml, peer)
       IN  /\ entry' = "apply"
           /\ status' = res.status
           /\ om2' = res.nexthop
           /\ history' = Append(history,
                                [rdf_xml |-> rdf_xml, peer |-> peer,
                                 server |-> om2.server,
                                 status |-> res.status, value |-> res.value])
  /\ UNCHANGED <<heap, pre, args, oper, optype, restriction, verdict, call, msg,
                 fields>>

NextApply == CallApply

SpecApply == InitApply /\ [][NextApply]_vars

\* ------------------------------------------------------------------------
\* vocabulary of the properties

CalledNewBody == entry = "new_body"

Returned == status = "returned"

\* the letters of the slots that are in a under either name
Supplied(a) ==
  {SlotOrder[k][1] : k \in {j \in 1..Len(SlotOrder) : HasSlot(a, j)}}

LongOf(short) ==
  SlotOrder[CHOOSE k \in 1..Len(SlotOrder) : SlotOrder[k][1] = short][2]

\* what new_body reads for the slot with this letter
Given(a, short) == SlotValue(a, short, LongOf(short))

\* the letters of the slots that are in a and hold a fragment
Populated(a) == {x \in Supplied(a) : Given(a, x) # <<>>}

AllFragments(a) == \A key \in DOMAIN a : a[key] # <<>>

InOrder(S) == SelectSeq(<<"M", "I", "R", "O">>, LAMBDA x : x \in S)

\* O alone, or any set of slots that includes M
LegalShapes == {{"O"}} \cup {S \in SUBSET ShortNames : "M" \in S}

\* an about attribute that is missing reads as the empty string once
\* new_body has looked at the fragment
Norm(a) == IF a = Unset THEN "" ELSE a

\* the heap new_body has built when the derivation is done
AfterDerive(a, h) ==
  DeriveHeap(_verify_about(h, ReadSlots(a), LongNames), ReadSlots(a))

\* the heap new_body has built when it reaches the replace rule
BeforeReplaceRule(a, h) ==
  ClearOtherwise(AfterDerive(a, h), DeriveOper(ReadSlots(a)), Letters(a, 1))

\* ------------------------------------------------------------------------
\* C1: for each of the 16 sets of slots supplied with a fragment, new_body
\* returns an operation iff the set is one of the 9 legal shapes, and raises
\* NotAllowedConstruct for the other 7.
C1_LegalShapesOnly ==
  (CalledNewBody /\ AllFragments(args)) =>
    IF Supplied(args) \in LegalShapes
    THEN Returned
    ELSE status = "NotAllowedConstruct"

C1_Witness ==
  /\ CalledNewBody
  /\ AllFragments(args)
  /\ Supplied(args) = {"I", "R", "O"}
  /\ status = "NotAllowedConstruct"

\* C2 as stated: the construct string new_body validates has exactly the
\* letters of the slots that hold a fragment (a slot supplied as None
\* contributes no letter), each once, in the order M, I, R, O.
C2_LettersOfPopulatedSlots ==
  CalledNewBody => optype = InOrder(Populated(args))

\* C2 amended: the construct string has exactly the letters of the slots
\* whose alias or full name is a key of args, whatever the value, each once,
\* in the order M, I, R, O.
C2_LettersOfSuppliedSlots ==
  CalledNewBody => optype = InOrder(Supplied(args))

C2_Witness ==
  /\ CalledNewBody
  /\ Returned
  /\ DOMAIN args = {"otherwiseInsert", "match"}
  /\ args["match"] = <<>>
  /\ optype = <<"M", "O">>

\* the case of C3, under either entry point
C3_Case ==
  \/ /\ entry = "new_body"
     /\ Supplied(args) = {"M", "I"}
     /\ Given(args, "M") = <<>>
     /\ Truthy(pre[Given(args, "I")[1]].about)
  \/ /\ entry = "new_insert_body"
     /\ args["match"] = <<>>
     /\ Truthy(pre[args["insert"][1]].about)

C3_Insert ==
  IF entry = "new_body" THEN Given(args, "I")[1] ELSE args["insert"][1]

\* C3: an insert fragment with a non-empty about u and no match (None
\* passed for it to new_body, or new_insert_body called without one) gives
\* an "MI" operation whose match has the class of the insert and about u,
\* and the about of the insert is empty.
C3_InsertDerivesMatch ==
  C3_Case =>
    /\ Returned
    /\ optype = <<"M", "I">>
    /\ DOMAIN oper = {"match", "insert"}
    /\ oper["insert"] = <<C3_Insert>>
    /\ oper["match"] # <<>>
    /\ heap[oper["match"][1]].type = pre[C3_Insert].type
    /\ heap[oper["match"][1]].about = pre[C3_Insert].about
    /\ ~Truthy(heap[C3_Insert].about)

C3_Witness ==
  /\ C3_Case
  /\ entry = "new_body"
  /\ Returned
  /\ heap[NewId].about = "u1"
  /\ heap[C3_Insert].about = ""

\* the case of C4
C4_Case ==
  /\ CalledNewBody
  /\ "M" \in Supplied(args)
  /\ Given(args, "M") = <<>>
  /\ Supplied(args) \ {"M"} # {}

\* the fragment the match of C4 is derived from
C4_Source ==
  LET S == Supplied(args)
  IN  Given(args, IF "I" \in S THEN "I" ELSE IF "R" \in S THEN "R" ELSE "O")[1]

C5_NoOperationWithoutMatch ==
  CalledNewBody =>
    /\ (Returned /\ Contains("M", optype)) =>
         ("match" \in DOMAIN oper /\ oper["match"] # <<>>)
    /\ (Supplied(args) = {"M"} /\ Given(args, "M") = <<>>) =>
         status = "MiroSpecException"

\* C6: in a returned operation with match and replace, a replace about that
\* was non-empty and equal to the match about when the replace rule ran is
\* empty.
C6_ReplaceAboutCleared ==
  (CalledNewBody /\ Returned /\ Contains("M", optype) /\ Contains("R", optype)) =>
    LET h3 == BeforeReplaceRule(args, pre)
        r == oper["replace"][1]
        m == oper["match"][1]
    IN  (Truthy(h3[r].about) /\ h3[r].about = h3[m].about) =>
          ~Truthy(heap[r].about)

\* the case of C7
C7_Case ==
  /\ CalledNewBody
  /\ Supplied(args) = {"M", "R"}
  /\ AllFragments(args)
  /\ Truthy(pre[Given(args, "M")[1]].about)
  /\ Truthy(pre[Given(args, "R")[1]].about)
  /\ pre[Given(args, "M")[1]].nprops = 0
  /\ pre[Given(args, "R")[1]].nprops = 0

C8_MatchAbout == AfterDerive(args, pre)[oper["match"][1]].about

C8_Case ==
  /\ CalledNewBody
  /\ Returned
  /\ "match" \in DOMAIN oper
  /\ "otherwiseInsert" \in DOMAIN oper

\* C8 as stated: in a returned operation with match and otherwiseInsert, the
\* about of otherwiseInsert is empty if it equalled the about of match (as
\* fixed by the derivation) and is otherwise the value it had; so it is never
\* a non-empty value equal to the about of match.
C8_OtherwiseKeepsOrClears ==
  C8_Case =>
    LET o == oper["otherwiseInsert"][1]
    IN  /\ IF Norm(pre[o].about) = C8_MatchAbout
           THEN ~Truthy(heap[o].about)
           ELSE heap[o].about = Norm(pre[o].about)
        /\ ~(Truthy(heap[o].about)
               /\ heap[o].about = heap[oper["match"][1]].about)

\* C8 amended: ... and is otherwise the value it had, unless the same
\* fragment object is also the insert of the operation, in which case it is
\* empty; it is never a non-empty value equal to the about of match.
C8_OtherwiseKeepsUnlessShared ==
  C8_Case =>
    LET o == oper["otherwiseInsert"][1]
    IN  /\ IF Norm(pre[o].about) = C8_MatchAbout
           THEN ~Truthy(heap[o].about)
           ELSE IF "insert" \in DOMAIN oper /\ oper["insert"] = <<o>>
           THEN ~Truthy(heap[o].about)
           ELSE heap[o].about = Norm(pre[o].about)
        /\ ~(Truthy(heap[o].about)
               /\ heap[o].about = heap[oper["match"][1]].about)

C8_Witness ==
  /\ C8_Case
  /\ DOMAIN oper = {"match", "insert", "otherwiseInsert"}
  /\ oper["insert"] # oper["otherwiseInsert"]
  /\ pre[oper["otherwiseInsert"][1]].about = "u2"
  /\ heap[oper["otherwiseInsert"][1]].about = "u2"
  /\ heap[oper["match"][1]].about = "u1"

\* C9: in every returned operation that has an insert, the about of the
\* insert is empty, whatever it was and whether match was supplied or
\* derived.
C9_InsertAboutEmpty ==
  (Returned /\ "insert" \in DOMAIN oper) =>
    ~Truthy(heap[oper["insert"][1]].about)

C9_Witness ==
  /\ CalledNewBody
  /\ Returned
  /\ "insert" \in DOMAIN oper
  /\ oper["match"] # <<NewId>>
  /\ Truthy(pre[oper["insert"][1]].about)
  /\ pre[oper["insert"][1]].about # pre[oper["match"][1]].about
  /\ heap[oper["insert"][1]].about = ""

\* "MR", both abouts non-empty, no properties
C10_PureIdentityChange ==
  /\ optype = <<"M", "R">>
  /\ Truthy(heap[oper["match"][1]].about)
  /\ Truthy(heap[oper["replace"][1]].about)
  /\ heap[oper["match"][1]].nprops = 0
  /\ heap[oper["replace"][1]].nprops = 0

C11_MoveOnlyBetweenDifferentAbouts ==
  (Returned /\ is_move_operation(oper, heap)) =>
    /\ operation(oper) = <<"M", "R">>
    /\ Truthy(heap[oper["match"][1]].about)
    /\ Truthy(heap[oper["replace"][1]].about)
    /\ heap[oper["match"][1]].about # heap[oper["replace"][1]].about
    /\ heap[oper["match"][1]].nprops = 0
    /\ heap[oper["replace"][1]].nprops = 0

\* every slot of the operation holds a fragment
HoldsFragments(op) == \A part \in DOMAIN op : op[part] # <<>>

\* the abouts of match, replace, otherwiseInsert, in this order, of the
\* slots that are in op
SlotAbouts(op, h) ==
  (IF "match" \in DOMAIN op THEN <<h[op["match"][1]].about>> ELSE <<>>)
    \o (IF "replace" \in DOMAIN op THEN <<h[op["replace"][1]].about>> ELSE <<>>)
    \o (IF "otherwiseInsert" \in DOMAIN op
        THEN <<h[op["otherwiseInsert"][1]].about>> ELSE <<>>)

\* C12 as stated: about(oper) is the list of the abouts of match, replace,
\* otherwiseInsert, in this order, and every element is non-empty: an empty
\* about of any of the three is left out.
C12_OnlyNonEmptyAbouts ==
  (Returned /\ HoldsFragments(oper)) =>
    /\ about(oper, heap) = SelectSeq(SlotAbouts(oper, heap), Truthy)
    /\ \A i \in 1..Len(about(oper, heap)) : Truthy(about(oper, heap)[i])

\* C12 amended: about(oper) lists, in the order match, replace,
\* otherwiseInsert, the about of match and of otherwiseInsert whenever the
\* slot is there, empty or not, and the about of replace only when it is
\* non-empty.
C12_AboutsOfMatchAndOtherwiseAlways ==
  (Returned /\ HoldsFragments(oper)) =>
    LET res == about(oper, heap)
        m == IF "match" \in DOMAIN oper THEN 1 ELSE 0
        r == IF "replace" \in DOMAIN oper
                /\ Truthy(heap[oper["replace"][1]].about) THEN 1 ELSE 0
        o == IF "otherwiseInsert" \in DOMAIN oper THEN 1 ELSE 0
    IN  /\ Len(res) = m + r + o
        /\ m = 1 => res[1] = heap[oper["match"][1]].about
        /\ r = 1 => res[m + 1] = heap[oper["replace"][1]].about
        /\ o = 1 => res[m + r + 1] = heap[oper["otherwiseInsert"][1]].about

C12_Witness ==
  /\ Returned
  /\ operation(oper) = <<"M", "O">>
  /\ oper["match"] # oper["otherwiseInsert"]
  /\ pre[oper["otherwiseInsert"][1]].about = "u1"
  /\ about(oper, heap) = <<"u1", "">>

\* the case of C13: only otherwiseInsert is handed over
C13_Case ==
  /\ entry \in {"new_body", "new_add_body"}
  /\ Supplied(args) = {"O"}

\* C13: from an otherwiseInsert fragment alone, new_body and new_add_body
\* build an "O" operation without a match slot, in which the about of the
\* fragment is what it was and is_add_operation is true; and on every
\* operation is_add_operation is true iff the construct is exactly "O".
C13_AddIsOtherwiseInsertAlone ==
  /\ C13_Case =>
       /\ Returned
       /\ optype = <<"O">>
       /\ operation(oper) = <<"O">>
       /\ "match" \notin DOMAIN oper
       /\ oper["otherwiseInsert"] = Given(args, "O")
       /\ heap[Given(args, "O")[1]].about = Norm(pre[Given(args, "O")[1]].about)
       /\ NewId \notin DOMAIN heap
       /\ is_add_operation(oper)
  /\ Returned => (is_add_operation(oper) <=> operation(oper) = <<"O">>)

C13_Witness ==
  /\ entry = "new_add_body"
  /\ Returned
  /\ heap[oper["otherwiseInsert"][1]].about = "u1"
  /\ is_add_operation(oper)

\* C14: remove_object_type is true iff the construct is exactly "M" and the
\* match fragment has no properties: a match-only operation is a delete
\* operation either way, and removes the whole object only without
\* properties.
C14_RemovesWholeObject ==
  (Returned /\ HoldsFragments(oper)) =>
    /\ remove_object_type(oper, heap)
         <=> (optype = <<"M">> /\ heap[oper["match"][1]].nprops = 0)
    /\ optype = <<"M">> => is_delete_operation(oper)
    /\ is_delete_operation(oper) <=> DOMAIN oper = {"match"}

C14_Witness ==
  /\ Returned
  /\ optype = <<"M">>
  /\ HoldsFragments(oper)
  /\ heap[oper["match"][1]].nprops > 0
  /\ heap[oper["match"][1]].about = "u1"
  /\ is_delete_operation(oper)
  /\ ~remove_object_type(oper, heap)

\* the letters of the slots of an operation
SlotsOf(op) ==
  {SlotOrder[k][1] : k \in {j \in 1..Len(SlotOrder) : SlotOrder[j][2] \in DOMAIN op}}

CalledNewMessage == entry = "new_message"

\* the entries the caller passed in args
Passed(key) == ~call.args.none /\ key \in DOMAIN call.args.items

\* C16: new_message fails with MissingSender whenever the sender is absent
\* or empty and then returns no message; every message it returns has a
\* non-empty source.
C16_MissingSender ==
  CalledNewMessage =>
    /\ ~ValueTruthy(call.sender) => (status = "MissingSender" /\ msg = <<>>)
    /\ status = "returned" => ValueTruthy(msg["source"])

\* C17: a non-empty sender, receiver or body argument is the source, the
\* receiver or the body of the returned message, whatever args contains.
C17_EnvelopeNotOverwritten ==
  (CalledNewMessage /\ status = "returned") =>
    /\ ValueTruthy(call.sender) => msg["source"] = call.sender
    /\ ValueTruthy(call.receiver) => msg["receiver"] = call.receiver
    /\ ValueTruthy(call.oper) => msg["body"] = call.oper

\* C18 as stated: the createTime of the returned message is the timestamp
\* generated during the call, an entry createTime of args never replaces it,
\* while an entry mid of args replaces the generated message id.
C18_CreateTimeNeverReplaced ==
  (CalledNewMessage /\ status = "returned") =>
    /\ msg["createTime"] = call.now
    /\ Passed("mid") => msg["mid"] = call.args.items["mid"]

\* C18: the createTime of the returned message is the timestamp generated
\* during the call unless args has an entry createTime, which replaces it
\* just as an entry mid of args replaces the generated message id.
C18_CreateTimeAndMidReplaced ==
  (CalledNewMessage /\ status = "returned") =>
    /\ msg["createTime"] =
         (IF Passed("createTime") THEN call.args.items["createTime"]
          ELSE call.now)
    /\ msg["mid"] =
         (IF Passed("mid") THEN call.args.items["mid"] ELSE call.uuid)

C18_Witness ==
  /\ CalledNewMessage
  /\ status = "returned"
  /\ Passed("createTime")
  /\ Passed("mid")
  /\ msg["createTime"] = FieldValue
  /\ msg["createTime"] # call.now
  /\ msg["mid"] = FieldValue

\* C19 as stated: the returned message always has a field body equal to the
\* oper argument, a falsy or empty one (None, an empty list) included.
C19_BodyAlwaysStored ==
  (CalledNewMessage /\ status = "returned") =>
    ("body" \in DOMAIN msg /\ msg["body"] = call.oper)

\* C19: the returned message has a field body, equal to the oper argument,
\* exactly when that argument is truthy; for None or an empty list the
\* message has no field body, whatever args contains.
C19_BodyStoredWhenTruthy ==
  (CalledNewMessage /\ status = "returned") =>
    IF ValueTruthy(call.oper)
    THEN "body" \in DOMAIN msg /\ msg["body"] = call.oper
    ELSE "body" \notin DOMAIN msg

C19_Witness ==
  /\ CalledNewMessage
  /\ status = "returned"
  /\ call.oper = EmptyList
  /\ Passed("body")
  /\ "body" \notin DOMAIN msg

\* C20: with a body, a sender, no args and no receiver the returned message
\* has a non-empty generated id, a createTime, the sender as source and no
\* field receiver; when args has an entry mid the id of the message is that
\* entry, and the entry is removed from args (the other entries stay).
C20_DefaultsAndMid ==
  CalledNewMessage =>
    /\ status = "returned"
    /\ ( /\ ValueTruthy(call.oper)
         /\ ValueTruthy(call.sender)
         /\ ~ArgsTruthy(call.args)
         /\ ~ValueTruthy(call.receiver) ) =>
           /\ msg["mid"] = call.uuid
           /\ msg["mid"] \in Uuids
           /\ ValueTruthy(msg["mid"])
           /\ msg["createTime"] = call.now
           /\ msg["source"] = call.sender
           /\ msg["body"] = call.oper
           /\ DOMAIN msg = {"mid", "createTime", "source", "body"}
    /\ Passed("mid") =>
           /\ msg["mid"] = call.args.items["mid"]
           /\ ~fields.none
           /\ DOMAIN fields.items = DOMAIN call.args.items \ {"mid"}
           /\ \A k \in DOMAIN fields.items : fields.items[k] = call.args.items[k]
    /\ ~Passed("mid") => fields = call.args

C20_Witness ==
  /\ CalledNewMessage
  /\ status = "returned"
  /\ call.oper = "op"
  /\ call.sender = "s1"
  /\ call.receiver = PyNone
  /\ call.args = Dict(("mid" :> FieldValue) @@ ("ErrorTo" :> FieldValue))
  /\ msg["mid"] = FieldValue
  /\ msg["ErrorTo"] = FieldValue
  /\ DOMAIN fields.items = {"ErrorTo"}

\* ------------------------------------------------------------------------
\* the frame of new_body

\* the call has come back, with an operation or an exception
Called == status # "idle"

\* the caller's fragments keep their class and their properties, an
\* exception leaves them as they were, and the slots of the operation hold
\* the very objects that were supplied (new_insert_body puts a new object in
\* place of a match it finds falsy)
FragmentsKept ==
  /\ \A f \in FragIds :
       /\ heap[f].type = pre[f].type
       /\ heap[f].nprops = pre[f].nprops
  /\ ~Returned => \A f \in FragIds : heap[f] = pre[f]
  /\ Returned =>
       \A x \in Populated(args) :
         \/ oper[LongOf(x)] = Given(args, x)
         \/ x = "M" /\ entry = "new_insert_body" /\ oper["match"] = <<NewId>>

\* a match fragment was supplied and is the match of the operation
MatchSupplied ==
  /\ Returned
  /\ "M" \in Supplied(args)
  /\ Given(args, "M") # <<>>
  /\ oper["match"] = Given(args, "M")

\* the same object is the match and also the insert or the otherwiseInsert
MatchShared ==
  \/ HoldsFrag(oper, "insert", oper["match"][1])
  \/ HoldsFrag(oper, "otherwiseInsert", oper["match"][1])

\* C21 as stated: new_body changes nothing on the caller's fragments except
\* about fields, works on the very objects that end up in the slots of the
\* operation, and never changes the about of a supplied match fragment.
C21_MatchAboutNeverChanged ==
  Called =>
    /\ FragmentsKept
    /\ MatchSupplied =>
         heap[oper["match"][1]].about = Norm(pre[oper["match"][1]].about)

\* C21: new_body changes nothing on the caller's fragments except about
\* fields, works on the very objects that end up in the slots of the
\* operation, and leaves the about of a supplied match fragment as it was
\* unless the same object is also the insert or the otherwiseInsert of the
\* operation, in which case that about ends up empty.
C21_MatchAboutKeptUnlessShared ==
  Called =>
    /\ FragmentsKept
    /\ MatchSupplied =>
         IF MatchShared
         THEN ~Truthy(heap[oper["match"][1]].about)
         ELSE heap[oper["match"][1]].about = Norm(pre[oper["match"][1]].about)

C21_Witness ==
  /\ CalledNewBody
  /\ MatchSupplied
  /\ ~MatchShared
  /\ "insert" \in DOMAIN oper
  /\ Truthy(pre[oper["match"][1]].about)
  /\ heap[oper["match"][1]].about = pre[oper["match"][1]].about
  /\ Truthy(pre[oper["insert"][1]].about)
  /\ heap[oper["insert"][1]].about = ""
  /\ args["I"] = oper["insert"]

\* ------------------------------------------------------------------------
\* OM2.apply

Booleans == {"True", "False"}

\* the calls of apply made so far
Applies == {history[i] : i \in 1..Len(history)}

\* the other side, or the socket the call found, made write raise
\* socket.error
SocketError(a) ==
  \/ a.peer \in {"refused", "broken", "socket.error"}
  \/ om2.class = "_Uds" /\ a.server # "open"

C23_BuildAgainChangesNothing ==
  (entry = "new_body_again") =>
    /\ Returned
    /\ optype = operation(args)
    /\ operation(oper) = operation(args)
    /\ DOMAIN oper = DOMAIN args
    /\ \A part \in DOMAIN oper :
         /\ oper[part] = args[part]
         /\ oper[part] # <<>> =>
              heap[oper[part][1]].about = pre[oper[part][1]].about
    /\ heap = pre

C23_Witness ==
  /\ entry = "new_body_again"
  /\ Returned
  /\ optype = <<"M", "I", "O">>
  /\ args["match"] = <<NewId>>
  /\ Truthy(heap[NewId].about)
  /\ heap[oper["insert"][1]].about = ""
  /\ Truthy(heap[oper["otherwiseInsert"][1]].about)

\* C24: with a _Uds nexthop the result of every write of a sequence of
\* writes through the same object depends only on what the other side does
\* in that write: a write that is answered with "OK" gives True however many
\* writes went through the object before it.
C24_EachWriteOnItsOwn ==
  om2.class = "_Uds" =>
    /\ \A a \in Applies :
         a.peer = "OK" => (a.status = "returned" /\ a.value = "True")
    /\ \A a, b \in Applies : a.peer = b.peer => a.value = b.value
====
